---- MODULE Spec2Model ----
(***************************************************************************)
(* Model of matiz22/graph_theory_assignment: main.py (shortest path,       *)
(* path-subgraph extraction, edge classification for drawing) and          *)
(* analyze_graph.py (degree statistics).  The graph is the networkx Graph  *)
(* the scripts build with read_edgelist: an insertion-ordered node list    *)
(* and, per node, an insertion-ordered neighbour list.                     *)
(***************************************************************************)
EXTENDS Integers, Sequences, FiniteSets, TLC

\* ------------------------------------------------------------------------
\* Bounds of the model
\* ------------------------------------------------------------------------
MaxNode == 2
MaxLines == 2
MaxPathLen == 2
MaxCap == 1

\* ------------------------------------------------------------------------
\* Configuration constants of main.py
\* ------------------------------------------------------------------------
SHOW_NEIGHBORS == TRUE
MAX_NEIGHBORS == 20
NODE_START == 0
NODE_END == 4038

VARIABLES pc, file, G, path, show_neighbors, max_neighbors, subgraph,
          edge_colors, out, stats

vars == <<pc, file, G, path, show_neighbors, max_neighbors, subgraph,
          edge_colors, out, stats>>

\* ------------------------------------------------------------------------
\* Python / networkx helpers
\* ------------------------------------------------------------------------
Range(s) == {s[i] : i \in 1..Len(s)}

\* Variants of the slice: one element too many, and s[c:] in place of s[:c].
PySliceOneMore(s, c) ==
    LET n == Len(s)
        k == IF c >= 0 THEN (IF c + 1 < n THEN c + 1 ELSE n)
                       ELSE (IF n + c + 1 > 0 THEN n + c + 1 ELSE 0)
    IN  SubSeq(s, 1, k)

PySliceFrom(s, c) ==
    LET n == Len(s)
        k == IF c >= 0 THEN (IF c < n THEN c ELSE n)
                       ELSE (IF n + c > 0 THEN n + c ELSE 0)
    IN  SubSeq(s, k + 1, n)

\* s[:c] of a Python list: a negative c counts from the end.
PySlice(s, c) ==
    LET n == Len(s)
        k == IF c >= 0 THEN (IF c < n THEN c ELSE n)
                       ELSE (IF n + c > 0 THEN n + c ELSE 0)
    IN  SubSeq(s, 1, k)

\* Insertion into a dict used as an ordered set: an existing key keeps its place.
DictAdd(s, x) == IF x \in Range(s) THEN s ELSE Append(s, x)

EmptyGraph == [nodes |-> <<>>, adj |-> [n \in {} |-> <<>>]]

\* Graph.add_edge(u, v)
add_edge(g, u, v) ==
    LET nodes1 == DictAdd(DictAdd(g.nodes, u), v)
        adj0 == [n \in Range(nodes1) |->
                    IF n \in DOMAIN g.adj THEN g.adj[n] ELSE <<>>]
        adj1 == [adj0 EXCEPT ![u] = DictAdd(@, v)]
        adj2 == [adj1 EXCEPT ![v] = DictAdd(@, u)]
    IN  [nodes |-> nodes1, adj |-> adj2]

\* nx.read_edgelist(filepath, create_using=nx.Graph(), nodetype=int):
\* one add_edge per line, in file order.
RECURSIVE read_edgelist(_)
read_edgelist(lines) ==
    IF lines = <<>> THEN EmptyGraph
    ELSE LET n == Len(lines)
         IN  add_edge(read_edgelist(SubSeq(lines, 1, n - 1)),
                      lines[n][1], lines[n][2])

HasNode(g, n) == n \in Range(g.nodes)

\* Graph.neighbors(n): the neighbours of n in adjacency (insertion) order.
neighbors(g, n) == g.adj[n]

\* Undirected edges of a graph; a self-loop is the one-element set {u}.
EdgeSet(g) == UNION {{{n, m} : m \in Range(g.adj[n])} : n \in DOMAIN g.adj}

\* Variant of the view that filters the nodes but not their adjacency.
graph_subgraph_unfiltered(g, nbunch) ==
    LET Keep(n) == n \in nbunch
        kept == SelectSeq(g.nodes, Keep)
    IN  [nodes |-> kept, adj |-> [n \in Range(kept) |-> g.adj[n]]]

\* Graph.subgraph(nbunch): the view induced on the nodes of nbunch that are
\* in the graph; nodes of nbunch that are not in the graph are ignored.
graph_subgraph(g, nbunch) ==
    LET Keep(n) == n \in nbunch
        kept == SelectSeq(g.nodes, Keep)
    IN  [nodes |-> kept,
         adj |-> [n \in Range(kept) |-> SelectSeq(g.adj[n], Keep)]]

\* ------------------------------------------------------------------------
\* main.py: get_path_subgraph
\* ------------------------------------------------------------------------
NoResult == [status |-> "none", nodes_to_draw |-> {}, updates |-> <<>>,
             graph |-> EmptyGraph]

\* neighbors[:max_neighbors] for each node of the path, in path order: the
\* arguments of the successive nodes_to_draw.update calls.
neighbor_updates(g, p, cap) ==
    [i \in 1..Len(p) |-> PySlice(neighbors(g, p[i]), cap)]

\* graph.neighbors(node) raises NetworkXError for a node that is not in the
\* graph; the loop runs only when show_neighbors is set.
get_path_subgraph_raises(g, p, show) ==
    show /\ \E i \in 1..Len(p) : ~HasNode(g, p[i])

\* Variants: nodes_to_draw starting empty; the flag ignored.
get_path_subgraph_empty_start(g, p, show, cap) ==
    IF get_path_subgraph_raises(g, p, show)
    THEN [NoResult EXCEPT !.status = "NetworkXError"]
    ELSE LET ups == IF show THEN neighbor_updates(g, p, cap) ELSE <<>>
             sel == UNION {Range(ups[i]) : i \in 1..Len(ups)}
         IN  [status |-> "ok", nodes_to_draw |-> sel, updates |-> ups,
              graph |-> graph_subgraph(g, sel)]

get_path_subgraph_flag_ignored(g, p, show, cap) ==
    IF get_path_subgraph_raises(g, p, show)
    THEN [NoResult EXCEPT !.status = "NetworkXError"]
    ELSE LET q == SelectSeq(p, LAMBDA n : HasNode(g, n))
             ups == neighbor_updates(g, q, cap)
             sel == Range(p) \cup UNION {Range(ups[i]) : i \in 1..Len(ups)}
         IN  [status |-> "ok", nodes_to_draw |-> sel, updates |-> ups,
              graph |-> graph_subgraph(g, sel)]

get_path_subgraph(g, p, show, cap) ==
    IF get_path_subgraph_raises(g, p, show)
    THEN [NoResult EXCEPT !.status = "NetworkXError"]
    ELSE LET ups == IF show THEN neighbor_updates(g, p, cap) ELSE <<>>
             sel == Range(p) \cup UNION {Range(ups[i]) : i \in 1..Len(ups)}
         IN  [status |-> "ok", nodes_to_draw |-> sel, updates |-> ups,
              graph |-> graph_subgraph(g, sel)]

\* ------------------------------------------------------------------------
\* main.py: draw_network, edge classification
\* ------------------------------------------------------------------------
\* list(zip(path, path[1:]))
path_edges(p) == [i \in 1..(IF Len(p) = 0 THEN 0 ELSE Len(p) - 1) |->
                     <<p[i], p[i + 1]>>]

\* Variant that checks one orientation only.
is_path_edge_one_way(p, u, v) == <<u, v>> \in Range(path_edges(p))

\* (u, v) in path_edges or (v, u) in path_edges
is_path_edge(p, u, v) ==
    \/ <<u, v>> \in Range(path_edges(p))
    \/ <<v, u>> \in Range(path_edges(p))

Position(s, x) == CHOOSE i \in 1..Len(s) : s[i] = x

\* subgraph.edges(): every edge once, as (u, v) with u the endpoint that
\* comes first in the node order.
graph_edges(g) ==
    {e \in Range(g.nodes) \X Range(g.nodes) :
        /\ e[2] \in Range(g.adj[e[1]])
        /\ Position(g.nodes, e[1]) <= Position(g.nodes, e[2])}

\* The colour and the width (in tenths) appended for the edge (u, v).
OnPathStyle == [color |-> "red", width |-> 20]
ContextStyle == [color |-> "#e0e0e0", width |-> 5]
edge_style(p, u, v) ==
    IF is_path_edge(p, u, v) THEN OnPathStyle ELSE ContextStyle

draw_edge_colors(g, p) == [e \in graph_edges(g) |-> edge_style(p, e[1], e[2])]

\* ------------------------------------------------------------------------
\* main.py: nx.shortest_path(G, source, target) as main calls it
\* ------------------------------------------------------------------------
WalksOfLen(g, s, t, k) ==
    {w \in [1..k -> Range(g.nodes)] :
        /\ w[1] = s
        /\ w[k] = t
        /\ \A i \in 1..(k - 1) : w[i + 1] \in Range(g.adj[w[i]])}

\* Every minimum-length path from source to target; the library returns one
\* of them.  Empty when the two nodes are not connected.
shortest_paths(g, s, t) ==
    LET ks == {k \in 1..Len(g.nodes) : WalksOfLen(g, s, t, k) # {}}
    IN  IF ks = {} THEN {}
        ELSE WalksOfLen(g, s, t, CHOOSE k \in ks : \A j \in ks : k <= j)

\* ------------------------------------------------------------------------
\* analyze_graph.py: get_and_print_stats
\* ------------------------------------------------------------------------
\* graph.degree(): a self-loop counts twice.
degree(g, n) ==
    Len(g.adj[n]) + (IF n \in Range(g.adj[n]) THEN 1 ELSE 0)

degree_list(g) == [i \in 1..Len(g.nodes) |-> degree(g, g.nodes[i])]

RECURSIVE SumSeq(_)
SumSeq(s) == IF s = <<>> THEN 0 ELSE s[1] + SumSeq(Tail(s))

\* graph.number_of_edges(): half the degree sum.
number_of_edges(g) == SumSeq(degree_list(g)) \div 2

\* nx.density(graph) as the fraction <<numerator, denominator>>; 0 for a
\* graph with no node or no edge.
density(g) ==
    LET n == Len(g.nodes)
        m == number_of_edges(g)
    IN  IF n = 0 \/ m = 0 THEN <<0, 1>> ELSE <<2 * m, n * (n - 1)>>

MaxSeq(s) == CHOOSE x \in Range(s) : \A y \in Range(s) : y <= x

\* statistics.median, doubled so that it stays an integer.
median_x2(s) ==
    LET srt == SortSeq(s, LAMBDA a, b : a < b)
        n == Len(s)
    IN  IF n % 2 = 1 THEN 2 * srt[(n + 1) \div 2]
        ELSE srt[n \div 2] + srt[n \div 2 + 1]

NoStats == [status |-> "none", num_nodes |-> 0, num_edges |-> 0,
            density |-> <<0, 1>>, degrees |-> <<>>, avg_degree |-> <<0, 1>>,
            median_x2 |-> 0, max_degree |-> 0]

\* statistics.mean raises StatisticsError on an empty list.
get_and_print_stats_raises(g) == degree_list(g) = <<>>

get_and_print_stats(g) ==
    LET degs == degree_list(g)
        base == [NoStats EXCEPT !.num_nodes = Len(g.nodes),
                                !.num_edges = number_of_edges(g),
                                !.density = density(g),
                                !.degrees = degs]
    IN  IF get_and_print_stats_raises(g)
        THEN [base EXCEPT !.status = "StatisticsError"]
        ELSE [base EXCEPT !.status = "ok",
                          !.avg_degree = <<SumSeq(degs), Len(degs)>>,
                          !.median_x2 = median_x2(degs),
                          !.max_degree = MaxSeq(degs)]

\* ------------------------------------------------------------------------
\* Inputs
\* ------------------------------------------------------------------------
NodeIds == 0..MaxNode
SeqsUpTo(S, n) == UNION {[1..k -> S] : k \in 0..n}
\* Edge-list lines "u v", both endpoint orders and self-referencing lines.
Lines == NodeIds \X NodeIds
Files == SeqsUpTo(Lines, MaxLines)
\* Lines with the endpoints in increasing order: they build every adjacency
\* order of every graph on NodeIds.
SortedLines == {l \in Lines : l[1] <= l[2]}
SortedFiles == SeqsUpTo(SortedLines, MaxLines)
Paths == SeqsUpTo(NodeIds, MaxPathLen)
DrawPaths == SeqsUpTo(NodeIds, MaxPathLen + 1)
Caps == (0 - MaxCap)..MaxCap
\* Node identifiers of the path-query run: they include the configured
\* source and target.
MainNodeIds == {NODE_START, NODE_END} \cup (1..(MaxNode - 1))
MainFiles == SeqsUpTo(MainNodeIds \X MainNodeIds, MaxLines)

Present(lines) == [exists |-> TRUE, lines |-> lines]
Missing == [exists |-> FALSE, lines |-> <<>>]

InitRest ==
    /\ path = <<>>
    /\ show_neighbors = SHOW_NEIGHBORS
    /\ max_neighbors = MAX_NEIGHBORS
    /\ subgraph = NoResult
    /\ edge_colors = <<>>
    /\ out = <<>>
    /\ stats = NoStats

\* ------------------------------------------------------------------------
\* Function-level specification of get_path_subgraph: every loaded graph,
\* path, flag and cap within the bounds.
\* ------------------------------------------------------------------------
InitExtract ==
    /\ \E lines \in SortedFiles :
          /\ file = Present(lines)
          /\ G = read_edgelist(lines)
    /\ pc = "loaded"
    /\ InitRest

CallGetPathSubgraph ==
    /\ pc = "loaded"
    /\ \E p \in Paths, show \in BOOLEAN, cap \in Caps :
          /\ ~get_path_subgraph_raises(G, p, show)
          /\ path' = p
          /\ show_neighbors' = show
          /\ max_neighbors' = cap
          /\ subgraph' = get_path_subgraph(G, p, show, cap)
    /\ pc' = "extracted"
    /\ UNCHANGED <<file, G, edge_colors, out, stats>>

CallGetPathSubgraphRaises ==
    /\ pc = "loaded"
    /\ \E p \in Paths, show \in BOOLEAN, cap \in Caps :
          /\ get_path_subgraph_raises(G, p, show)
          /\ path' = p
          /\ show_neighbors' = show
          /\ max_neighbors' = cap
          /\ subgraph' = get_path_subgraph(G, p, show, cap)
    /\ pc' = "raised"
    /\ UNCHANGED <<file, G, edge_colors, out, stats>>

NextExtract ==
    \/ CallGetPathSubgraph
    \/ CallGetPathSubgraphRaises

SpecExtract == InitExtract /\ [][NextExtract]_vars

\* ------------------------------------------------------------------------
\* Function-level specification of draw_network's edge classification:
\* every loaded graph as the subgraph, every path within the bounds.
\* ------------------------------------------------------------------------
InitDraw ==
    /\ \E lines \in SortedFiles :
          /\ file = Present(lines)
          /\ G = read_edgelist(lines)
    /\ pc = "extracted"
    /\ path = <<>>
    /\ show_neighbors = SHOW_NEIGHBORS
    /\ max_neighbors = MAX_NEIGHBORS
    /\ subgraph = [NoResult EXCEPT !.status = "ok",
                                   !.nodes_to_draw = Range(G.nodes),
                                   !.graph = G]
    /\ edge_colors = <<>>
    /\ out = <<>>
    /\ stats = NoStats

CallDrawNetwork ==
    /\ pc = "extracted"
    /\ \E p \in DrawPaths :
          /\ path' = p
          /\ edge_colors' = draw_edge_colors(subgraph.graph, p)
    /\ pc' = "drawn"
    /\ out' = Append(out, "plot_shown")
    /\ UNCHANGED <<file, G, show_neighbors, max_neighbors, subgraph, stats>>

NextDraw == CallDrawNetwork

SpecDraw == InitDraw /\ [][NextDraw]_vars

\* ------------------------------------------------------------------------
\* main.py: main()
\* ------------------------------------------------------------------------
InitMain ==
    /\ file \in {Missing} \cup {Present(lines) : lines \in MainFiles}
    /\ G = EmptyGraph
    /\ pc = "start"
    /\ InitRest

MainLoadGraph ==
    /\ pc = "start"
    /\ file.exists
    /\ G' = read_edgelist(file.lines)
    /\ pc' = "search"
    /\ UNCHANGED <<file, path, show_neighbors, max_neighbors, subgraph,
                   edge_colors, out, stats>>

MainFileNotFound ==
    /\ pc = "start"
    /\ ~file.exists
    /\ out' = Append(out, "error_file_not_found")
    /\ pc' = "done"
    /\ UNCHANGED <<file, G, path, show_neighbors, max_neighbors, subgraph,
                   edge_colors, stats>>

MainPathFound ==
    /\ pc = "search"
    /\ HasNode(G, NODE_START) /\ HasNode(G, NODE_END)
    /\ path' \in shortest_paths(G, NODE_START, NODE_END)
    /\ out' = out \o <<"searching", "path_found">>
    /\ pc' = "extract"
    /\ UNCHANGED <<file, G, show_neighbors, max_neighbors, subgraph,
                   edge_colors, stats>>

\* Variant of the no-path handler without its return.
MainNoPathFallsThrough ==
    /\ pc = "search"
    /\ HasNode(G, NODE_START) /\ HasNode(G, NODE_END)
    /\ shortest_paths(G, NODE_START, NODE_END) = {}
    /\ out' = out \o <<"searching", "error_no_path">>
    /\ pc' = "extract"
    /\ UNCHANGED <<file, G, path, show_neighbors, max_neighbors, subgraph,
                   edge_colors, stats>>

MainNoPath ==
    /\ pc = "search"
    /\ HasNode(G, NODE_START) /\ HasNode(G, NODE_END)
    /\ shortest_paths(G, NODE_START, NODE_END) = {}
    /\ out' = out \o <<"searching", "error_no_path">>
    /\ pc' = "done"
    /\ UNCHANGED <<file, G, path, show_neighbors, max_neighbors, subgraph,
                   edge_colors, stats>>

MainNodeNotFound ==
    /\ pc = "search"
    /\ ~(HasNode(G, NODE_START) /\ HasNode(G, NODE_END))
    /\ out' = out \o <<"searching", "error_node_not_found">>
    /\ pc' = "done"
    /\ UNCHANGED <<file, G, path, show_neighbors, max_neighbors, subgraph,
                   edge_colors, stats>>

MainGetPathSubgraph ==
    /\ pc = "extract"
    /\ subgraph' = get_path_subgraph(G, path, SHOW_NEIGHBORS, MAX_NEIGHBORS)
    /\ pc' = IF subgraph'.status = "ok" THEN "draw" ELSE "crashed"
    /\ UNCHANGED <<file, G, path, show_neighbors, max_neighbors,
                   edge_colors, out, stats>>

MainDrawNetwork ==
    /\ pc = "draw"
    /\ edge_colors' = draw_edge_colors(subgraph.graph, path)
    /\ out' = Append(out, "plot_shown")
    /\ pc' = "done"
    /\ UNCHANGED <<file, G, path, show_neighbors, max_neighbors, subgraph,
                   stats>>

NextMain ==
    \/ MainLoadGraph
    \/ MainFileNotFound
    \/ MainPathFound
    \/ MainNoPath
    \/ MainNodeNotFound
    \/ MainGetPathSubgraph
    \/ MainDrawNetwork

SpecMain == InitMain /\ [][NextMain]_vars

\* ------------------------------------------------------------------------
\* analyze_graph.py: main()
\* ------------------------------------------------------------------------
InitStats ==
    /\ file \in {Missing} \cup {Present(lines) : lines \in Files}
    /\ G = EmptyGraph
    /\ pc = "start"
    /\ InitRest

StatsLoadGraph ==
    /\ pc = "start"
    /\ file.exists
    /\ G' = read_edgelist(file.lines)
    /\ out' = Append(out, "loading")
    /\ pc' = "stats"
    /\ UNCHANGED <<file, path, show_neighbors, max_neighbors, subgraph,
                   edge_colors, stats>>

StatsFileNotFound ==
    /\ pc = "start"
    /\ ~file.exists
    /\ out' = out \o <<"loading", "error_file_not_found">>
    /\ pc' = "done"
    /\ UNCHANGED <<file, G, path, show_neighbors, max_neighbors, subgraph,
                   edge_colors, stats>>

\* get_and_print_stats returns: the summary is printed.
GetAndPrintStats ==
    /\ pc = "stats"
    /\ ~get_and_print_stats_raises(G)
    /\ stats' = get_and_print_stats(G)
    /\ out' = Append(out, "summary")
    /\ pc' = "plot"
    /\ UNCHANGED <<file, G, path, show_neighbors, max_neighbors, subgraph,
                   edge_colors>>

\* statistics.mean raises; main has no handler, the interpreter prints the
\* traceback and the run ends.
GetAndPrintStatsRaises ==
    /\ pc = "stats"
    /\ get_and_print_stats_raises(G)
    /\ stats' = get_and_print_stats(G)
    /\ out' = Append(out, "traceback_StatisticsError")
    /\ pc' = "crashed"
    /\ UNCHANGED <<file, G, path, show_neighbors, max_neighbors, subgraph,
                   edge_colors>>

PlotDegreeDistribution ==
    /\ pc = "plot"
    /\ out' = Append(out, "histogram_shown")
    /\ pc' = "done"
    /\ UNCHANGED <<file, G, path, show_neighbors, max_neighbors, subgraph,
                   edge_colors, stats>>

NextStats ==
    \/ StatsLoadGraph
    \/ StatsFileNotFound
    \/ GetAndPrintStats
    \/ GetAndPrintStatsRaises
    \/ PlotDegreeDistribution

SpecStats == InitStats /\ [][NextStats]_vars

\* ========================================================================
\* Properties
\* ========================================================================
PathInGraph == \A i \in 1..Len(path) : HasNode(G, path[i])
OutputNodes == Range(subgraph.graph.nodes)
ExtraNodes == OutputNodes \ Range(path)

\* C1: whenever get_path_subgraph returns for a path whose nodes are all in
\* the graph, with either flag and any cap, every node of the path is a node
\* of the returned subgraph.
C1_PathSubsetOfSubgraph ==
    (pc = "extracted" /\ PathInGraph) => Range(path) \subseteq OutputNodes

\* C1 witness: neighbours requested with cap 0 on a two-node path that has
\* neighbours outside the path.
C1_Witness ==
    /\ pc = "extracted" /\ PathInGraph
    /\ show_neighbors /\ max_neighbors = 0
    /\ Cardinality(Range(path)) >= 2
    /\ \E i \in 1..Len(path) : Range(neighbors(G, path[i])) \ Range(path) # {}

\* C2: with the flag off, for a path whose nodes are all in the graph and any
\* cap, the subgraph's node set is exactly the set of path nodes.
C2_NoNeighborsExactPath ==
    (pc = "extracted" /\ ~show_neighbors /\ PathInGraph)
        => OutputNodes = Range(path)

\* C2 witness: flag off, positive cap, a path node with a neighbour outside
\* the path.
C2_Witness ==
    /\ pc = "extracted" /\ ~show_neighbors /\ PathInGraph
    /\ max_neighbors > 0
    /\ path # <<>>
    /\ \E i \in 1..Len(path) : Range(neighbors(G, path[i])) \ Range(path) # {}

\* C3: with the flag on and a cap C >= 0, each path node contributes at most
\* C nodes, all of them its neighbours; the output is the path plus these
\* contributions, so every output node outside the path is adjacent to a path
\* node and there are at most |Path| * C of them.
C3_CappedNeighborContribution ==
    (pc = "extracted" /\ show_neighbors /\ max_neighbors >= 0) =>
        /\ Len(subgraph.updates) = Len(path)
        /\ \A i \in 1..Len(path) :
              /\ Cardinality(Range(subgraph.updates[i])) <= max_neighbors
              /\ Range(subgraph.updates[i]) \subseteq Range(neighbors(G, path[i]))
        /\ OutputNodes = Range(path) \cup
              UNION {Range(subgraph.updates[i]) : i \in 1..Len(path)}
        /\ \A n \in ExtraNodes :
              \E i \in 1..Len(path) : {path[i], n} \in EdgeSet(G)
        /\ Cardinality(ExtraNodes) <= Cardinality(Range(path)) * max_neighbors
        /\ Cardinality(ExtraNodes) <= Len(path) * max_neighbors

\* C3 witness: a positive cap that cuts a path node's neighbour list, with a
\* node outside the path in the output.
C3_Witness ==
    /\ pc = "extracted" /\ show_neighbors /\ max_neighbors >= 1
    /\ \E i \in 1..Len(path) : Len(neighbors(G, path[i])) > max_neighbors
    /\ ExtraNodes # {}

\* C4: the returned subgraph is induced on the selected node set: its nodes
\* are the selected nodes, and its edges are exactly the edges of the graph
\* with both endpoints selected.
C4_InducedSubgraph ==
    pc = "extracted" =>
        /\ OutputNodes = subgraph.nodes_to_draw \cap Range(G.nodes)
        /\ EdgeSet(subgraph.graph) =
              {e \in EdgeSet(G) : e \subseteq subgraph.nodes_to_draw}

\* C4 witness: neighbours included, one edge of the graph kept and another
\* one left out.
C4_Witness ==
    /\ pc = "extracted" /\ show_neighbors
    /\ EdgeSet(subgraph.graph) # {}
    /\ EdgeSet(G) \ EdgeSet(subgraph.graph) # {}

\* C7: a path that references a node absent from the graph ends in a
\* not-found error with either flag; the node is never silently dropped.
C7_AbsentPathNodeIsAnError ==
    (pc \in {"extracted", "raised"} /\ ~PathInGraph)
        => subgraph.status = "NetworkXError"

\* Result of the same call with another cap.
NodesWithCap(c) == get_path_subgraph(G, path, TRUE, c).nodes_to_draw

SameSign(a, b) == (a >= 0 /\ b >= 0) \/ (a < 0 /\ b < 0)

Consecutive(p, u, v) ==
    \E i \in 1..(Len(p) - 1) :
        \/ p[i] = u /\ p[i + 1] = v
        \/ p[i] = v /\ p[i + 1] = u

\* C8: draw_network styles an enumerated edge (u, v) as on-path (red, width
\* 2.0) exactly when u and v are consecutive in the path in either order and
\* as context otherwise, and the reversed pair gets the same style.
C8_EdgeClassification ==
    pc = "drawn" =>
        /\ {{e[1], e[2]} : e \in DOMAIN edge_colors} = EdgeSet(subgraph.graph)
        /\ \A e \in DOMAIN edge_colors :
              /\ edge_colors[e] = OnPathStyle <=> Consecutive(path, e[1], e[2])
              /\ ~Consecutive(path, e[1], e[2]) => edge_colors[e] = ContextStyle
              /\ edge_style(path, e[2], e[1]) = edge_colors[e]

\* C8 witness: an edge enumerated against the path's direction is on-path,
\* and an edge joining two distinct, non-consecutive path nodes is context.
C8_Witness ==
    /\ pc = "drawn"
    /\ \E e \in DOMAIN edge_colors :
          /\ <<e[2], e[1]>> \in Range(path_edges(path))
          /\ <<e[1], e[2]>> \notin Range(path_edges(path))
          /\ edge_colors[e] = OnPathStyle
    /\ \E e \in DOMAIN edge_colors :
          /\ e[1] # e[2]
          /\ {e[1], e[2]} \subseteq Range(path)
          /\ edge_colors[e] = ContextStyle

IsError(m) ==
    m \in {"error_file_not_found", "error_no_path", "error_node_not_found"}
Errors == SelectSeq(out, IsError)

\* C5: in main.py's main a file-not-found, no-path or node-not-found failure
\* prints one error message and ends the run with no subgraph extracted and
\* nothing rendered; the plot is shown only after the load and the path search
\* both succeeded.
C5_FailuresAreTerminal ==
    /\ Errors # <<>> =>
          /\ pc = "done"
          /\ Len(Errors) = 1
          /\ subgraph = NoResult
          /\ edge_colors = <<>>
          /\ "plot_shown" \notin Range(out)
    /\ (pc # "start" /\ ~file.exists) => Errors = <<"error_file_not_found">>
    /\ (pc \notin {"start", "search"} /\ file.exists
          /\ ~(HasNode(G, NODE_START) /\ HasNode(G, NODE_END)))
          => Errors = <<"error_node_not_found">>
    /\ (pc \notin {"start", "search"} /\ file.exists
          /\ HasNode(G, NODE_START) /\ HasNode(G, NODE_END)
          /\ shortest_paths(G, NODE_START, NODE_END) = {})
          => Errors = <<"error_no_path">>
    /\ "plot_shown" \in Range(out) =>
          /\ file.exists
          /\ Errors = <<>>
          /\ path \in shortest_paths(G, NODE_START, NODE_END)
          /\ subgraph.status = "ok"

\* C5 witness: source and target are both loaded but not connected, and the
\* run has ended on the no-path message.
C5_Witness ==
    /\ pc = "done"
    /\ HasNode(G, NODE_START) /\ HasNode(G, NODE_END)
    /\ Errors = <<"error_no_path">>

\* C6: on a loaded graph with no node the degree-statistics run reports an
\* empty-graph condition and ends cleanly, without an unhandled fault and
\* without a histogram.
C6_EmptyGraphReportedCleanly ==
    (pc \notin {"start", "stats"} /\ file.exists /\ G.nodes = <<>>) =>
        /\ pc = "done"
        /\ "error_empty_graph" \in Range(out)
        /\ stats.status # "StatisticsError"
        /\ "traceback_StatisticsError" \notin Range(out)
        /\ "histogram_shown" \notin Range(out)

\* C9: for a graph loaded from any edge list (duplicate and self-referencing
\* lines included) every collected degree is the number of distinct
\* neighbours of its node, and the degrees sum to twice the edge count.
C9_DegreeIsDistinctNeighborCount ==
    stats.status = "ok" =>
        /\ Len(stats.degrees) = Len(G.nodes)
        /\ \A i \in 1..Len(G.nodes) :
              stats.degrees[i] = Cardinality(Range(neighbors(G, G.nodes[i])))
        /\ SumSeq(stats.degrees) = 2 * stats.num_edges

====
